---- MODULE Spec2Model ----
(***************************************************************************)
(* A model of the enum_range attribute macro (crates/enum-range/src/lib.rs).*)
(*                                                                          *)
(* The macro reads the repr of an enum (get_repr), collects the variants    *)
(* that carry a #[range(...)] attribute, and rewrites the variant list so   *)
(* that every such variant is replaced by one unit variant per value of     *)
(* its range (generate_enum_ranges, generate_variant_ident), emitting one   *)
(* range_check method per range when it can (generate_range_checker).       *)
(*                                                                          *)
(* Strings are sequences of one-character strings, so that format!,         *)
(* str::replace, to_string, Regex::is_match and Ident::new are modelled by  *)
(* what they do to the characters.  usize is modelled at a reduced width    *)
(* (UsizeBits); an arithmetic overflow either panics (overflow checks on,   *)
(* the dev profile) or wraps (overflow checks off, the release profile).    *)
(***************************************************************************)
EXTENDS Integers, Sequences, FiniteSets

VARIABLES
    overflow_wraps,  \* the build: FALSE panics on overflow (overflow-checks), TRUE wraps
    decl,            \* the enum as written: [attrs, variants]; never changes
    variants,        \* data_enum.variants, changed in place
    pc,              \* position in enum_range
    repr,            \* let repr = get_repr(&ast)
    ranges,          \* VecDeque of <<variant_index, range>>
    current_range,   \* Option<(usize, Range)>
    index,           \* index of the merge loop (1-based)
    new_variants,    \* Punctuated<Variant, Token![,]>
    enum_impl,       \* the range_check methods generated so far
    panic_msg        \* the panic that ended the macro, if any

vars == <<overflow_wraps, decl, variants, pc, repr, ranges,
          current_range, index, new_variants, enum_impl, panic_msg>>

\* Option<T>: None is the empty sequence, Some(x) the sequence of x alone
None == <<>>

Some(x) == <<x>>

Unwrap(o) == o[1]

(***************************************************************************)
(* Bounds of the model.                                                    *)
(***************************************************************************)
\* width of usize in the model (64 in the program)
UsizeBits == 5
\* start and end of a range are drawn from 0..MaxVal
MaxVal == 2
\* an enum has at most MaxMembers variants
MaxMembers == 3
\* an enum has at most MaxAttrs attributes
MaxAttrs == 2

RECURSIVE Pow2(_)
Pow2(n) == IF n = 0 THEN 1 ELSE 2 * Pow2(n - 1)

\* usize::MAX + 1
UsizeModulus == Pow2(UsizeBits)
\* isize::MAX: a Vec holds at most isize::MAX bytes, so fewer elements yet
IsizeMax == Pow2(UsizeBits - 1) - 1

(***************************************************************************)
(* usize arithmetic: [ok |-> no overflow, val |-> the wrapped result].     *)
(***************************************************************************)
UsizeSub(a, b) == [ok |-> a >= b, val |-> (a - b + UsizeModulus) % UsizeModulus]

UsizeAdd(a, b) == [ok |-> a + b < UsizeModulus, val |-> (a + b) % UsizeModulus]

(***************************************************************************)
(* Strings.                                                                *)
(***************************************************************************)
Digits == <<"0", "1", "2", "3", "4", "5", "6", "7", "8", "9">>

DigitChars == {Digits[i] : i \in 1..10}

LetterChars == {"C", "I", "P", "U", "V", "X",
                "a", "d", "e", "i", "l", "m", "n", "s", "u", "v", "x", "z"}

\* usize::to_string
RECURSIVE ToString(_)
ToString(n) ==
    IF n < 10 THEN <<Digits[n + 1]>>
    ELSE ToString(n \div 10) \o <<Digits[(n % 10) + 1]>>

StartsWith(s, pat) ==
    /\ Len(s) >= Len(pat)
    /\ SubSeq(s, 1, Len(pat)) = pat

\* str::replace: every non-overlapping match of pat, left to right
RECURSIVE Replace(_, _, _)
Replace(s, pat, to) ==
    IF s = <<>> THEN <<>>
    ELSE IF StartsWith(s, pat)
         THEN to \o Replace(SubSeq(s, Len(pat) + 1, Len(s)), pat, to)
         ELSE <<Head(s)>> \o Replace(Tail(s), pat, to)

\* Ident::new accepts only a legal identifier and panics otherwise
IsValidIdent(s) ==
    /\ s # <<>>
    /\ s # <<"_">>
    /\ s[1] \in LetterChars \cup {"_"}
    /\ \A i \in 1..Len(s) : s[i] \in LetterChars \cup DigitChars \cup {"_"}

\* Regex::new(r"[uif]\d+").is_match: an unanchored search
RegexIsMatch(s) ==
    \E i \in 1..Len(s) :
        /\ s[i] \in {"u", "i", "f"}
        /\ i + 1 <= Len(s)
        /\ s[i + 1] \in DigitChars

\* usize::from_str / syn::parse_str / Literal::from_str on a decimal literal
RECURSIVE ParseUsize(_)
ParseUsize(s) ==
    IF s = <<>> THEN 0
    ELSE LET last == s[Len(s)]
             d == CHOOSE k \in 0..9 : Digits[k + 1] = last
         IN 10 * ParseUsize(SubSeq(s, 1, Len(s) - 1)) + d

(***************************************************************************)
(* get_repr.  An attribute is [path, is_ident_list, args]: args is the     *)
(* list of identifiers between the parentheses, and is_ident_list is FALSE *)
(* when the attribute is not such a list (repr(align(4)), a bare #[repr]), *)
(* which is where require_list().unwrap() or parse_args_with(..).unwrap()  *)
(* panics.                                                                 *)
(***************************************************************************)

FirstMatch(reprs) ==
    IF \E k \in 1..Len(reprs) : RegexIsMatch(reprs[k])
    THEN Some(reprs[CHOOSE k \in 1..Len(reprs) :
                   /\ RegexIsMatch(reprs[k])
                   /\ \A j \in 1..(k - 1) : ~RegexIsMatch(reprs[j])])
    ELSE None

\* [panic |-> BOOLEAN, val |-> Option<Ident>]
RECURSIVE get_repr(_)
get_repr(attrs) ==
    IF attrs = <<>> THEN [panic |-> FALSE, val |-> None]
    ELSE IF Head(attrs).path # "repr" THEN get_repr(Tail(attrs))
    ELSE IF ~Head(attrs).is_ident_list THEN [panic |-> TRUE, val |-> None]
    ELSE [panic |-> FALSE, val |-> FirstMatch(Head(attrs).args)]

(***************************************************************************)
(* generate_variant_ident and generate_range_checker.                      *)
(***************************************************************************)
PlaceholderIndex == <<"{", "i", "n", "d", "e", "x", "}">>

PlaceholderValue == <<"{", "v", "a", "l", "u", "e", "}">>

\* format!("{}{{}}", variant.ident): the identifier followed by the two
\* characters that the escaped braces stand for
DefaultFormat(variant) == variant.ident \o <<"{", "}">>

\* {value} replaced by the index as well
generate_variant_ident_index_only(variant, range, idx, value) ==
    LET format == IF range.format # None THEN Unwrap(range.format)
                  ELSE DefaultFormat(variant)
    IN Replace(Replace(format, PlaceholderIndex, ToString(idx)),
               PlaceholderValue, ToString(idx))

\* the ident_str of generate_variant_ident, before Ident::new
generate_variant_ident(variant, range, idx, value) ==
    LET format == IF range.format # None THEN Unwrap(range.format)
                  ELSE DefaultFormat(variant)
    IN Replace(Replace(format, PlaceholderIndex, ToString(idx)),
               PlaceholderValue, ToString(value))

\* the method generated whenever range_check is given, repr or not
generate_range_checker_without_repr(repr_ident, range) ==
    IF range.range_check = None THEN None
    ELSE Some([method_name |-> Unwrap(range.range_check),
               repr        |-> IF repr_ident = None THEN <<"u", "8">>
                               ELSE Unwrap(repr_ident),
               range_start |-> ParseUsize(ToString(range.start)),
               range_end   |-> ParseUsize(ToString(range.end))])

\* None, or the method: its name, the repr it casts to and its two literals
generate_range_checker(repr_ident, range) ==
    IF range.range_check = None \/ repr_ident = None THEN None
    ELSE Some([method_name |-> Unwrap(range.range_check),
               repr        |-> Unwrap(repr_ident),
               range_start |-> ParseUsize(ToString(range.start)),
               range_end   |-> ParseUsize(ToString(range.end))])

\* Range::from_variant with #[darling(default)]: the fields of the range
\* attribute, or Range::default() when the variant has none
DefaultRange == [format |-> None, start |-> 0, end |-> 0, range_check |-> None]

from_variant(variant) ==
    IF variant.range_attr = None THEN DefaultRange ELSE Unwrap(variant.range_attr)

\* 0..range.end - range.start: the end left out
RangeLenExclusive(range) == UsizeSub(range.end, range.start)

\* 0..range.end - range.start + 1
RangeLen(range) ==
    LET diff == UsizeSub(range.end, range.start)
        len  == UsizeAdd(diff.val, 1)
    IN [ok |-> diff.ok /\ len.ok, val |-> len.val]

\* the inner loop of generate_enum_ranges, from range_index on:
\* [panic |-> None or the panic, variants |-> new_variants after the loop]
RECURSIVE RangeVariants(_, _, _, _, _, _)
RangeVariants(checks, variant, range, count, idx, pushed) ==
    IF idx >= count THEN [panic |-> None, variants |-> pushed]
    ELSE LET range_value == UsizeAdd(range.start, idx)
             str == generate_variant_ident(variant, range, idx, range_value.val)
         IN IF checks /\ ~range_value.ok
            THEN [panic |-> Some([kind |-> "overflow", at |-> <<>>]), variants |-> pushed]
            ELSE IF ~IsValidIdent(str)
            THEN [panic |-> Some([kind |-> "invalid_ident", at |-> str]), variants |-> pushed]
            ELSE IF Len(pushed) >= IsizeMax
            THEN [panic |-> Some([kind |-> "capacity_overflow", at |-> <<>>]), variants |-> pushed]
            ELSE RangeVariants(checks, variant, range, count, idx + 1,
                     Append(pushed,
                            [ident        |-> str,
                             discriminant |-> Some(ParseUsize(ToString(range_value.val))),
                             range_attr   |-> None]))

(***************************************************************************)
(* The enums the macro is applied to.                                      *)
(***************************************************************************)
\* the name of the variant declared at position i, and of its range_check
NameAt(i) == <<"V">> \o ToString(i)

CheckNameAt(i) == <<"i", "s", "_", "v">> \o ToString(i)

\* "P{index}_{value}", as in the example's PrivateUse
FmtIndexValue == <<"P">> \o PlaceholderIndex \o <<"_">> \o PlaceholderValue
\* "U{value}", as in the example's Unassigned
FmtValue == <<"U">> \o PlaceholderValue
\* "I{index}x{index}": a placeholder used twice
FmtIndexTwice == <<"I">> \o PlaceholderIndex \o <<"x">> \o PlaceholderIndex
\* "X{name}{index}": a placeholder the macro does not know
FmtUnknown == <<"X", "{", "n", "a", "m", "e", "}">> \o PlaceholderIndex

Formats == {None, Some(FmtIndexValue), Some(FmtValue), Some(FmtIndexTwice),
            Some(FmtUnknown)}

LiteralDiscriminants == {None, Some(1)}

LiteralAt(i, d) == [ident |-> NameAt(i), discriminant |-> d, range_attr |-> None]

RangeAt(i, r) == [ident |-> NameAt(i), discriminant |-> None, range_attr |-> Some(r)]

LiteralsAt(i) == {LiteralAt(i, d) : d \in LiteralDiscriminants}

\* range-tagged variants with every start, end, format and range_check
RangesAt(i) ==
    {RangeAt(i, [format |-> f, start |-> s, end |-> e, range_check |-> c]) :
        f \in Formats, s \in 0..MaxVal, e \in 0..MaxVal,
        c \in {None, Some(CheckNameAt(i))}}

\* range-tagged variants of one format, starting at 1: an empty range
\* (end = 0, start = end + 1), one value, several values
PlainRangesAt(i) ==
    {RangeAt(i, [format |-> Some(FmtIndexValue), start |-> 1, end |-> e,
                 range_check |-> c]) :
        e \in 0..MaxVal, c \in {None, Some(CheckNameAt(i))}}

IsRangeTagged(variant) == variant.range_attr # None

\* the sequences of n literals
RECURSIVE LiteralSeqs(_)
LiteralSeqs(n) ==
    IF n = 0 THEN {<<>>}
    ELSE {Append(v, x) : v \in LiteralSeqs(n - 1), x \in LiteralsAt(n)}

\* a literal with a discriminant at the odd positions, without at the even
PlainLiteralAt(i) == LiteralAt(i, IF i % 2 = 1 THEN Some(1) ELSE None)

\* the sequences of n variants, each a literal or a plain range
RECURSIVE MergeSeqs(_)
MergeSeqs(n) ==
    IF n = 0 THEN {<<>>}
    ELSE {Append(v, x) : v \in MergeSeqs(n - 1),
                         x \in {PlainLiteralAt(n)} \cup PlainRangesAt(n)}

\* any interleaving of literals and plain ranges
MergeVariants == UNION {MergeSeqs(n) : n \in 0..MaxMembers}

\* one range of any shape among literals
OneRangeVariants ==
    UNION {UNION {{[v EXCEPT ![i] = r] : v \in LiteralSeqs(n), r \in RangesAt(i)} :
                  i \in 1..n} : n \in 1..MaxMembers}

ReprU8 == <<"u", "8">>

ReprUsize == <<"u", "s", "i", "z", "e">>

ReprC == <<"C">>

ReprIdents == {ReprU8, ReprUsize, ReprC}

ReprAttr(args) == [path |-> "repr", is_ident_list |-> TRUE, args |-> args]

\* #[derive(..)], #[repr(align(2))], #[repr(a)] and #[repr(a, b)]
Attributes ==
    {[path |-> "derive", is_ident_list |-> TRUE, args |-> <<>>],
     [path |-> "repr", is_ident_list |-> FALSE, args |-> <<>>]}
    \cup {ReprAttr(<<a>>) : a \in ReprIdents}
    \cup {ReprAttr(<<a, b>>) : a \in ReprIdents, b \in ReprIdents}

AllAttrs == UNION {[1..n -> Attributes] : n \in 0..MaxAttrs}

PlainAttrs == {<<>>, <<ReprAttr(<<ReprU8>>)>>}

\* a literal and a range that asks for a range_check
ReprVariants ==
    {<<LiteralAt(1, None),
       RangeAt(2, [format |-> Some(FmtValue), start |-> 0, end |-> 1,
                   range_check |-> Some(CheckNameAt(2))])>>}

Declarations ==
    {[attrs |-> <<ReprAttr(<<ReprU8>>)>>, variants |-> v] : v \in MergeVariants}
    \cup {[attrs |-> a, variants |-> v] : a \in PlainAttrs, v \in OneRangeVariants}
    \cup {[attrs |-> a, variants |-> v] : a \in AllAttrs, v \in ReprVariants}

(***************************************************************************)
(* enum_range.                                                             *)
(***************************************************************************)
Init ==
    /\ overflow_wraps \in BOOLEAN
    /\ decl \in Declarations
    /\ variants = decl.variants
    /\ pc = "get_repr"
    /\ repr = None
    /\ ranges = <<>>
    /\ current_range = None
    /\ index = 1
    /\ new_variants = <<>>
    /\ enum_impl = <<>>
    /\ panic_msg = None

Panic(kind, at) ==
    /\ pc' = "panicked"
    /\ panic_msg' = Some([kind |-> kind, at |-> at])

\* let repr = get_repr(&ast);
GetRepr ==
    /\ pc = "get_repr"
    /\ LET r == get_repr(decl.attrs)
       IN IF r.panic
          THEN /\ Panic("unwrap", <<>>)
               /\ UNCHANGED repr
          ELSE /\ repr' = r.val
               /\ pc' = "collect"
               /\ UNCHANGED panic_msg
    /\ UNCHANGED <<overflow_wraps, decl, variants, ranges, current_range, index,
                   new_variants, enum_impl>>

\* pop_back in the place of pop_front
PopBack(q) == IF q = <<>> THEN None ELSE Some(q[Len(q)])

\* VecDeque::pop_front
PopFront(q) == IF q = <<>> THEN None ELSE Some(Head(q))

\* the collecting loop with push_front in the place of push_back
RECURSIVE FindRangesPushFront(_, _, _)
FindRangesPushFront(vs, variant_index, found) ==
    IF variant_index > Len(vs) THEN [variants |-> vs, ranges |-> found]
    ELSE IF IsRangeTagged(vs[variant_index])
         THEN FindRangesPushFront([vs EXCEPT ![variant_index].range_attr = None],
                                  variant_index + 1,
                                  <<<<variant_index, from_variant(vs[variant_index])>>>>
                                      \o found)
         ELSE FindRangesPushFront(vs, variant_index + 1, found)

\* "Find all ranges defined in the enum", from variant_index on: the range
\* attributes are removed from the variants and pushed, with their position
\* (from_variant is Ok for every variant of the model: a range attribute
\* that darling cannot parse is not among them)
RECURSIVE FindRanges(_, _, _)
FindRanges(vs, variant_index, found) ==
    IF variant_index > Len(vs) THEN [variants |-> vs, ranges |-> found]
    ELSE LET variant == vs[variant_index]
             range == from_variant(variant)
         IN IF IsRangeTagged(variant)
            THEN FindRanges([vs EXCEPT ![variant_index].range_attr = None],
                            variant_index + 1,
                            Append(found, <<variant_index, range>>))
            ELSE FindRanges(vs, variant_index + 1, found)

\* the collecting loop, then the early return or the first pop_front
Collect ==
    /\ pc = "collect"
    /\ LET found == FindRanges(variants, 1, <<>>)
       IN /\ variants' = found.variants
          /\ IF found.ranges = <<>>
             THEN /\ pc' = "done"
                  /\ ranges' = <<>>
                  /\ UNCHANGED current_range
             ELSE /\ pc' = "merge"
                  /\ current_range' = PopFront(found.ranges)
                  /\ ranges' = Tail(found.ranges)
    /\ UNCHANGED <<overflow_wraps, decl, repr, index, new_variants, enum_impl,
                   panic_msg>>

\* one iteration of the loop that makes the list of new variants
Merge ==
    /\ pc = "merge"
    /\ index <= Len(variants)
    /\ LET variant == variants[index]
           keep == /\ new_variants' = Append(new_variants, variant)
                   /\ index' = index + 1
                   /\ UNCHANGED <<pc, ranges, current_range, enum_impl, panic_msg>>
       IN IF current_range # None
          THEN LET range_idx == Unwrap(current_range)[1]
                   range == Unwrap(current_range)[2]
                   len == RangeLen(range)
                   res == RangeVariants(~overflow_wraps, variant, range,
                                        len.val, 0, new_variants)
               IN IF index < range_idx THEN keep
                  ELSE IF index = range_idx
                  THEN IF ~overflow_wraps /\ ~len.ok
                       THEN /\ Panic("overflow", <<>>)
                            /\ UNCHANGED <<ranges, current_range, index,
                                           new_variants, enum_impl>>
                       ELSE IF res.panic # None
                       THEN /\ Panic(Unwrap(res.panic).kind, Unwrap(res.panic).at)
                            /\ new_variants' = res.variants
                            /\ UNCHANGED <<ranges, current_range, index, enum_impl>>
                       ELSE /\ new_variants' = res.variants
                            /\ enum_impl' = enum_impl \o generate_range_checker(repr, range)
                            /\ current_range' = PopFront(ranges)
                            /\ ranges' = IF ranges = <<>> THEN <<>> ELSE Tail(ranges)
                            /\ index' = index + 1
                            /\ UNCHANGED <<pc, panic_msg>>
                  ELSE /\ Panic("unreachable", <<>>)
                       /\ UNCHANGED <<ranges, current_range, index, new_variants,
                                      enum_impl>>
          ELSE keep
    /\ UNCHANGED <<overflow_wraps, decl, variants, repr>>

\* data_enum.variants = new_variants; enum_impl
Finish ==
    /\ pc = "merge"
    /\ index > Len(variants)
    /\ variants' = new_variants
    /\ pc' = "done"
    /\ UNCHANGED <<overflow_wraps, decl, repr, ranges, current_range, index,
                   new_variants, enum_impl, panic_msg>>

Next == GetRepr \/ Collect \/ Merge \/ Finish

Spec == Init /\ [][Next]_vars

(***************************************************************************)
(* The generated method and the enum it is called on.                      *)
(***************************************************************************)
\* "self as #repr" for an integer repr such as u8 or i16
CastAs(repr_ident, d) ==
    LET modulus == Pow2(ParseUsize(Tail(repr_ident)))
        wrapped == ((d % modulus) + modulus) % modulus
    IN IF Head(repr_ident) = "u" \/ 2 * wrapped < modulus THEN wrapped
       ELSE wrapped - modulus

\* value > start in the place of value >= start
RangeCheckMethodExclusive(method, d) ==
    LET value == CastAs(method.repr, d)
    IN value > method.range_start /\ value <= method.range_end

\* pub fn #method_name(self) -> bool, called on a variant of value d
RangeCheckMethod(method, d) ==
    LET value == CastAs(method.repr, d)
    IN value >= method.range_start /\ value <= method.range_end

(***************************************************************************)
(* What the properties are stated with.                                    *)
(***************************************************************************)
Terminated == pc \in {"done", "panicked"}

PanicKind == IF panic_msg = None THEN "none" ELSE Unwrap(panic_msg).kind

InputLen == Len(decl.variants)

RangePositions == {i \in 1..InputLen : IsRangeTagged(decl.variants[i])}

RangeOf(i) == Unwrap(decl.variants[i].range_attr)

\* the value rustc gives the j-th variant: its discriminant, or one more
\* than the variant before it, or 0 for the first
RECURSIVE DiscriminantValue(_, _)
DiscriminantValue(vs, j) ==
    IF vs[j].discriminant # None THEN Unwrap(vs[j].discriminant)
    ELSE IF j = 1 THEN 0
    ELSE DiscriminantValue(vs, j - 1) + 1

\* max(0, end - start + 1), over the integers
InclusiveLen(range) ==
    IF range.start <= range.end THEN range.end - range.start + 1 ELSE 0

SegmentLen(variant) ==
    IF IsRangeTagged(variant) THEN InclusiveLen(Unwrap(variant.range_attr)) ELSE 1

\* how many output members come before those of input position i
RECURSIVE Offset(_)
Offset(i) == IF i = 1 THEN 0 ELSE Offset(i - 1) + SegmentLen(decl.variants[i - 1])

\* the j-th output member made for the range at input position i (j from 0)
Synthesized(i, j) == variants[Offset(i) + j + 1]

\* the template with its placeholders substituted in one pass, left to right
RECURSIVE Substituted(_, _, _)
Substituted(template, idx, value) ==
    IF template = <<>> THEN <<>>
    ELSE IF StartsWith(template, PlaceholderIndex)
    THEN ToString(idx)
         \o Substituted(SubSeq(template, Len(PlaceholderIndex) + 1, Len(template)),
                        idx, value)
    ELSE IF StartsWith(template, PlaceholderValue)
    THEN ToString(value)
         \o Substituted(SubSeq(template, Len(PlaceholderValue) + 1, Len(template)),
                        idx, value)
    ELSE <<Head(template)>> \o Substituted(Tail(template), idx, value)

\* a variant as it is after the range attribute was taken off it
Stripped(variant) == [variant EXCEPT !.range_attr = None]

\* the input with every range-tagged variant replaced by its expansion
RECURSIVE Expanded(_)
Expanded(vs) ==
    IF vs = <<>> THEN <<>>
    ELSE LET variant == Head(vs)
             range == Unwrap(variant.range_attr)
         IN (IF IsRangeTagged(variant)
             THEN RangeVariants(~overflow_wraps, Stripped(variant), range,
                                RangeLen(range).val, 0, <<>>).variants
             ELSE <<variant>>) \o Expanded(Tail(vs))

IsLiteralOfInput(member) ==
    \E i \in 1..InputLen : ~IsRangeTagged(decl.variants[i]) /\ decl.variants[i] = member

IsLiteral(variant) == ~IsRangeTagged(variant)

\* C1: the output is the input with each range-tagged variant replaced in
\* place by its expansion; the literals are all there, unchanged and in
\* their order, and no range-tagged variant's own name is left.
C1_RangesReplacedInPlace ==
    pc = "done" =>
        /\ variants = Expanded(decl.variants)
        /\ SelectSeq(variants, IsLiteralOfInput) = SelectSeq(decl.variants, IsLiteral)
        /\ \A i \in RangePositions : \A j \in 1..Len(variants) :
               variants[j].ident # decl.variants[i].ident

\* C1 witness: two ranges with a literal between them were expanded
C1_Witness ==
    /\ pc = "done"
    /\ InputLen = 3
    /\ RangePositions = {1, 3}
    /\ Len(variants) = 5

\* C2: a range with start <= end yields the discriminants start, start + 1,
\* ..., end, once each and ascending: end - start + 1 members.
C2_InclusiveAscendingDiscriminants ==
    pc = "done" =>
        /\ Len(variants) = Offset(InputLen + 1)
        /\ \A i \in RangePositions :
               RangeOf(i).start <= RangeOf(i).end =>
                   \A j \in 0..(RangeOf(i).end - RangeOf(i).start) :
                       Synthesized(i, j).discriminant = Some(RangeOf(i).start + j)

\* C2 witness: a range of three values, after a literal, was expanded
C2_Witness ==
    /\ pc = "done"
    /\ \E i \in RangePositions :
           /\ i > 1
           /\ RangeOf(i).start = 0
           /\ RangeOf(i).end = 2
           /\ Synthesized(i, 2).discriminant = Some(2)

\* the range whose expansion a panic interrupted
CurrentRange == Unwrap(current_range)[2]

CurrentPosition == Unwrap(current_range)[1]

\* C3: with a name template, the member at offset j of the range is named
\* by the template with {index} replaced by j and {value} by start + j, the
\* rest of the template verbatim; this is also the string that Ident::new
\* refuses when it is no identifier.
C3_TemplateSubstitution ==
    /\ pc = "done" =>
           \A i \in RangePositions :
               RangeOf(i).format # None =>
                   \A j \in 0..(InclusiveLen(RangeOf(i)) - 1) :
                       Synthesized(i, j).ident =
                           Substituted(Unwrap(RangeOf(i).format), j, RangeOf(i).start + j)
    /\ (pc = "panicked" /\ PanicKind = "invalid_ident"
            /\ CurrentRange.format # None /\ CurrentRange.start <= CurrentRange.end) =>
           LET j == Len(new_variants) - Offset(CurrentPosition)
           IN Unwrap(panic_msg).at =
                  Substituted(Unwrap(CurrentRange.format), j, CurrentRange.start + j)

\* C3 witness: the second member of a range named by "P{index}_{value}"
C3_Witness ==
    /\ pc = "done"
    /\ \E i \in RangePositions :
           /\ RangeOf(i).format = Some(FmtIndexValue)
           /\ RangeOf(i).start = 1
           /\ RangeOf(i).end = 2
           /\ Synthesized(i, 1).ident = <<"P", "1", "_", "2">>

\* C4: without a name template, the member at offset j of the range is
\* named by the variant's own name followed by j.
C4_DefaultNameIsNameThenIndex ==
    /\ pc = "done" =>
           \A i \in RangePositions :
               RangeOf(i).format = None =>
                   \A j \in 0..(InclusiveLen(RangeOf(i)) - 1) :
                       Synthesized(i, j).ident = decl.variants[i].ident \o ToString(j)
    /\ (pc = "panicked" /\ PanicKind = "invalid_ident" /\ CurrentRange.format = None) =>
           LET j == Len(new_variants) - Offset(CurrentPosition)
           IN Unwrap(panic_msg).at = decl.variants[CurrentPosition].ident \o ToString(j)

\* the checks the input asks for, in the order of the input
RECURSIVE RequestedChecks(_)
RequestedChecks(vs) ==
    IF vs = <<>> THEN <<>>
    ELSE LET variant == Head(vs)
             range == Unwrap(variant.range_attr)
         IN (IF IsRangeTagged(variant) /\ range.range_check # None /\ repr # None
             THEN <<[method_name |-> Unwrap(range.range_check),
                     repr        |-> Unwrap(repr),
                     range_start |-> range.start,
                     range_end   |-> range.end]>>
             ELSE <<>>) \o RequestedChecks(Tail(vs))

\* C5: a range without range_check, or with one but no repr, gets no check;
\* a range with both gets exactly one, of that name, bounded by (start, end).
C5_OneCheckPerRequest ==
    pc = "done" => enum_impl = RequestedChecks(decl.variants)

\* C5 witness: of two expanded ranges only the second asked for a check, and
\* a repr was there
C5_Witness ==
    /\ pc = "done"
    /\ repr # None
    /\ RangePositions = {1, 2}
    /\ RangeOf(1).range_check = None
    /\ RangeOf(2).range_check # None
    /\ Len(enum_impl) = 1

\* C6: the check of a range, called on a member of the expanded enum of
\* value d, is true exactly when start <= d <= end, so true on the members
\* made for that range.
C6_CheckIsMembership ==
    pc = "done" =>
        \A i \in RangePositions : \A k \in 1..Len(enum_impl) :
            (RangeOf(i).range_check = Some(enum_impl[k].method_name)) =>
                /\ \A j \in 1..Len(variants) :
                       LET d == DiscriminantValue(variants, j)
                       IN RangeCheckMethod(enum_impl[k], d)
                              <=> (RangeOf(i).start <= d /\ d <= RangeOf(i).end)
                /\ \A j \in 0..(InclusiveLen(RangeOf(i)) - 1) :
                       RangeCheckMethod(enum_impl[k],
                           DiscriminantValue(variants, Offset(i) + j + 1))

\* C6 witness: a check that is true on one member and false on another
C6_Witness ==
    /\ pc = "done"
    /\ Len(enum_impl) = 1
    /\ \E j \in 1..Len(variants) :
           RangeCheckMethod(enum_impl[1], DiscriminantValue(variants, j))
    /\ \E j \in 1..Len(variants) :
           ~RangeCheckMethod(enum_impl[1], DiscriminantValue(variants, j))

\* C7: a range with start > end expands to nothing and the macro completes:
\* the output has one member per literal and max(0, end - start + 1) per range.
C7_InvertedRangeIsEmpty ==
    /\ pc = "panicked" => PanicKind \notin {"overflow", "capacity_overflow"}
    /\ pc = "done" => Len(variants) = Offset(InputLen + 1)

\* C8: a range with start > end that asks for a check, with a repr, still
\* gets its check, bounded by (start, end) and false on every value.
C8_InvertedRangeCheckEmitted ==
    \A i \in RangePositions :
        (/\ RangeOf(i).start > RangeOf(i).end
         /\ RangeOf(i).range_check # None
         /\ repr # None
         /\ \/ pc = "done"
            \/ /\ pc = "panicked"
               /\ PanicKind \in {"overflow", "capacity_overflow"}
               /\ CurrentPosition = i) =>
            \E k \in 1..Len(enum_impl) :
                /\ enum_impl[k].method_name = Unwrap(RangeOf(i).range_check)
                /\ enum_impl[k].range_start = RangeOf(i).start
                /\ enum_impl[k].range_end = RangeOf(i).end
                /\ \A d \in 0..(UsizeModulus - 1) : ~RangeCheckMethod(enum_impl[k], d)

\* C9: in the merge loop the position is never past that of the pending
\* range: unreachable!() is not executed.
C9_UnreachableNotReached ==
    /\ PanicKind # "unreachable"
    /\ (pc = "merge" /\ current_range # None /\ index <= Len(variants)) =>
           index <= CurrentPosition

\* C9 witness: the merge loop stands on a range that follows another range
C9_Witness ==
    /\ pc = "merge"
    /\ current_range # None
    /\ index = CurrentPosition
    /\ index > 1
    /\ (index - 1) \in RangePositions

\* the identifiers of all the repr attributes, in order
RECURSIVE ReprArgs(_)
ReprArgs(attrs) ==
    IF attrs = <<>> THEN <<>>
    ELSE (IF Head(attrs).path = "repr" THEN Head(attrs).args ELSE <<>>)
         \o ReprArgs(Tail(attrs))

FirstNumericalRepr(attrs) ==
    LET numerical == SelectSeq(ReprArgs(attrs), RegexIsMatch)
    IN IF numerical = <<>> THEN None ELSE Some(Head(numerical))

\* C10: get_repr yields the first identifier, over the repr attributes in
\* order, that names a numerical representation (one the macro's own pattern
\* accepts), and None only when no repr attribute names one.
C10_FirstNumericalRepr ==
    pc \in {"collect", "merge", "done"} => repr = FirstNumericalRepr(decl.attrs)

====
